---- MODULE Spec2Model ----
(***************************************************************************)
(* Model of the video processing component src/App.tsx: the preview loop,  *)
(* processVideo (one "run" per invocation), its renderFrame loop, the      *)
(* encoder's onstop callback and cancelProcessing, as callbacks            *)
(* interleaved on one event loop.                                          *)
(*                                                                         *)
(* Every invocation of processVideo creates its own audio element, audio   *)
(* context, streams, MediaRecorder and hidden video; they are indexed by   *)
(* the run number 1..MaxRuns.  The React refs are shared by all runs and   *)
(* hold a run number (0 stands for null).  Time is counted in whole        *)
(* seconds of playback.  ProcessingState.fps depends on the wall clock     *)
(* only and is left out.                                                   *)
(*                                                                         *)
(* requestAnimationFrame follows the host's rule: the callbacks requested  *)
(* before a frame run in that frame, one after the other in the order of   *)
(* their requests, and no other task runs between them; a callback         *)
(* requested during a frame runs in the next one.                          *)
(***************************************************************************)
EXTENDS Integers, FiniteSets, Sequences, TLC

MaxRuns == 2
MaxDuration == 2
MaxChunks == 1
MaxChanges == 1
TargetFps == 30

Runs == 1..MaxRuns
Null == 0
Refs == 0..MaxRuns

VARIABLES
    videoUrl,           \* TRUE when a source video is loaded
    duration,           \* video.duration of the loaded source
    processedVideoUrl,  \* Null, or the run whose onstop published the artifact
    isPlaying,          \* React state isPlaying
    processing,         \* React state processing (ProcessingState)
    pv,                 \* visible preview video: "paused" | "playing" | "ended"
    rafQueue,           \* owners of the frame callbacks requested for the next frame, in order
    frameBatch,         \* owners of the callbacks of the frame being run that have yet to run
    animationRef,       \* owner of the handle in animationRef.current
    mediaRecorderRef,   \* run whose recorder is in mediaRecorderRef.current
    streamRef,          \* run whose combined stream is in streamRef.current
    audioElementRef,    \* run whose audio element is in audioElementRef.current
    audioContextRef,    \* run whose audio context is in audioContextRef.current
    nRuns,              \* number of processVideo invocations so far
    pc,                 \* [run -> position of that processVideo invocation]
    audio,              \* [run -> "none" | "paused" | "playing"]
    ctx,                \* [run -> "none" | "running" | "closed"]
    closeCalls,         \* [run -> number of close() calls on its audio context]
    tracks,             \* [run -> "none" | "canvas" | "live" | "stopped"]
    rec,                \* [run -> "none" | "inactive" | "recording" | "stopping" | "stopped"]
    tv,                 \* [run -> hidden video "none" | "loading" | "ready" | "playing" | "paused" | "ended"]
    ct,                 \* [run -> tempVideo.currentTime]
    published,          \* [run -> number of artifacts that run's onstop published]
    config,             \* the line settings (React state of lines 26-30)
    nChanges,           \* number of changes made to the line settings
    capturedConfig,     \* [run -> the settings of the drawLines its processVideo closed over]
    drawnWith,          \* [run -> the settings its overlay renders have used] (history)
    fnArgs,             \* the arguments of a call of drawLines or of the mimeType selection
    fnResult,           \* what that call produced
    overlayProgress,    \* [run -> the progress its last frame passed to drawLines, in percent]
    sourceSize,         \* <<videoWidth, videoHeight>> the video elements report for the source
    canvasSize,         \* <<width, height>> of the shared canvas
    painted,            \* [loop -> what its last iteration painted on the canvas] (history)
    recordedChunks,     \* recordedChunksRef.current: the chunks pushed, each <<run, index>>
    blob,               \* [run -> the chunks of the Blob that run's onstop built]
    nData,              \* [run -> number of dataavailable events of that run's recorder]
    emitted,            \* [run -> the non-empty chunks that run's recorder emitted] (history)
    settledBy,          \* [run -> what settled the audio wait: "none" | "ready" | "timeout" | "error"] (history)
    startupLog,         \* [run -> the startup steps that run has taken, in order] (history)
    failedAt,           \* [run -> the step whose failure ended processVideo, or "none"] (history)
    outcome,            \* [run -> "none" | "Completed" | "Cancelled" | "Failed"] (history)
    cancelled           \* TRUE from a handled cancel request until the next start request (history)

vars == <<videoUrl, duration, processedVideoUrl, isPlaying, processing, pv,
          rafQueue, frameBatch, animationRef, mediaRecorderRef, streamRef,
          audioElementRef, audioContextRef, nRuns, pc, audio, ctx, closeCalls,
          tracks, rec, tv, ct, published, config, nChanges, capturedConfig, drawnWith,
          overlayProgress, sourceSize, canvasSize, painted, fnArgs, fnResult,
          recordedChunks, blob, nData, emitted, settledBy, startupLog, failedAt, outcome, cancelled>>

previewVars == <<isPlaying, pv>>
frameVars == <<rafQueue, frameBatch>>
refVars == <<mediaRecorderRef, streamRef, audioElementRef, audioContextRef>>
histVars == <<outcome, cancelled>>
waitVars == <<settledBy, failedAt>>
chunkVars == <<recordedChunks, blob, nData, emitted>>
configVars == <<config, nChanges, capturedConfig, drawnWith>>
fnVars == <<fnArgs, fnResult>>
paintVars == <<canvasSize, painted>>

\* Owners of a requestAnimationFrame handle: the preview loop is -1, run r is r.
Preview == -1
Handles == {Null, Preview} \cup Runs

\* The line settings a new page has (lines 26-30), and the values the sliders
\* are moved among here.
InitialConfig ==
    [showVertical |-> TRUE, showHorizontal |-> FALSE, showRotating |-> FALSE,
     lineThickness |-> 2, lineOpacity |-> 70]
ThicknessValues == {2, 3}
OpacityValues == {70, 75}

\* The two compositor loops that paint the shared canvas.
Loops == {Preview} \cup Runs

\* What videoWidth and videoHeight read: zero while the dimensions are not
\* known, the frame size once they are.  A canvas starts at the default size.
NoSize == <<0, 0>>
KnownSize == <<20, 10>>
SourceSizes == {NoSize, KnownSize}
DefaultCanvas == <<300, 150>>

\* video.videoWidth && video.videoHeight (line 128).
DimensionsKnown(sz) == sz[1] # 0 /\ sz[2] # 0

\* canvas.width = video.videoWidth; canvas.height = video.videoHeight
\* (lines 166-167): the canvas takes what the video reports, zero included.
SizeCanvas(sz) == sz

\* Whether drawLines strokes anything: one of the three kinds is switched on
\* (lines 60, 70, 79).
AnyLine(c) == c.showVertical \/ c.showHorizontal \/ c.showRotating

\* What ctx.drawImage(v, 0, 0, canvas.width, canvas.height) followed by
\* drawLines(ctx, canvas.width, canvas.height, progress) puts on the canvas.
\* drawImage of a video without dimensions returns without painting and
\* without throwing; nothing lands on a canvas of no area.
Paints(videoSz, canvasSz, c) ==
    (IF DimensionsKnown(videoSz) /\ DimensionsKnown(canvasSz) THEN {"video"} ELSE {})
        \cup (IF DimensionsKnown(canvasSz) /\ AnyLine(c) THEN {"overlay"} ELSE {})

InitialProcessing ==
    [isProcessing |-> FALSE, progress |-> 0, processedFrames |-> 0,
     totalFrames |-> 0, estimatedTimeRemaining |-> 0]

NoCall == [fn |-> "none"]
NotCalled == [done |-> FALSE]

\* The page as constructed, apart from the line settings.
IdleSession ==
    /\ videoUrl = FALSE
    /\ duration = 0
    /\ processedVideoUrl = Null
    /\ isPlaying = FALSE
    /\ processing = InitialProcessing
    /\ pv = "paused"
    /\ rafQueue = <<>>
    /\ frameBatch = <<>>
    /\ animationRef = Null
    /\ mediaRecorderRef = Null
    /\ streamRef = Null
    /\ audioElementRef = Null
    /\ audioContextRef = Null
    /\ nRuns = 0
    /\ pc = [r \in Runs |-> "none"]
    /\ audio = [r \in Runs |-> "none"]
    /\ ctx = [r \in Runs |-> "none"]
    /\ closeCalls = [r \in Runs |-> 0]
    /\ tracks = [r \in Runs |-> "none"]
    /\ rec = [r \in Runs |-> "none"]
    /\ tv = [r \in Runs |-> "none"]
    /\ ct = [r \in Runs |-> 0]
    /\ published = [r \in Runs |-> 0]
    /\ nChanges = 0
    /\ capturedConfig = [r \in Runs |-> InitialConfig]
    /\ drawnWith = [r \in Runs |-> {}]
    /\ overlayProgress = [r \in Runs |-> 0]
    /\ canvasSize = DefaultCanvas
    /\ painted = [o \in Loops |-> {}]
    /\ recordedChunks = <<>>
    /\ blob = [r \in Runs |-> <<>>]
    /\ nData = [r \in Runs |-> 0]
    /\ emitted = [r \in Runs |-> <<>>]
    /\ settledBy = [r \in Runs |-> "none"]
    /\ startupLog = [r \in Runs |-> <<>>]
    /\ failedAt = [r \in Runs |-> "none"]
    /\ outcome = [r \in Runs |-> "none"]
    /\ cancelled = FALSE

Init ==
    /\ IdleSession
    /\ sourceSize = KnownSize
    /\ config = InitialConfig
    /\ fnArgs = NoCall
    /\ fnResult = NotCalled

----------------------------------------------------------------------------
\* Platform operations on the per-run objects.

\* MediaRecorder.stop(): a recorder that is not inactive becomes inactive and
\* its stop event is queued ("stopping"); on an inactive recorder it does nothing.
RecorderStop(recF, r) ==
    IF r # Null /\ recF[r] = "recording" THEN [recF EXCEPT ![r] = "stopping"] ELSE recF

\* stream.getTracks().forEach(track => track.stop()) on run s's combined stream.
TracksStop(trF, s) ==
    IF s # Null THEN [trF EXCEPT ![s] = "stopped"] ELSE trF

\* AudioContext.close() on run a's context.
ContextClose(ctxF, a) ==
    IF a # Null THEN [ctxF EXCEPT ![a] = "closed"] ELSE ctxF

CloseCount(ccF, a) ==
    IF a # Null THEN [ccF EXCEPT ![a] = @ + 1] ELSE ccF

\* HTMLMediaElement.pause() on run a's audio element.
AudioPause(auF, a) ==
    IF a # Null THEN [auF EXCEPT ![a] = "paused"] ELSE auF

Range(q) == {q[i] : i \in 1..Len(q)}

\* requestAnimationFrame by owner h: its callback joins the next frame's list.
\* An owner has one callback in the list.
RequestFrame(q, h) ==
    IF h \in Range(q) THEN q ELSE Append(q, h)

\* cancelAnimationFrame(h) on a list of callbacks: the handle in animationRef
\* is the latest request of its owner h, so that owner's callback, if it has
\* yet to run, is removed; a handle whose callback has run removes nothing.
CancelFrame(q, h) ==
    SelectSeq(q, LAMBDA o : o # h)

\* A frame callback of owner h has yet to run.
FramePending(h) == h \in Range(rafQueue) \cup Range(frameBatch)

\* No frame is being run: tasks other than frame callbacks run only then.
BetweenFrames == frameBatch = <<>>

----------------------------------------------------------------------------
\* The upload and the preview loop.

\* handleFileUpload; the file input is rendered only while videoUrl is null.
handleFileUpload ==
    /\ BetweenFrames
    /\ ~videoUrl
    /\ videoUrl' = TRUE
    /\ duration' \in 0..MaxDuration
    /\ processedVideoUrl' = Null
    /\ processing' = [processing EXCEPT !.progress = 0, !.processedFrames = 0]
    /\ UNCHANGED <<previewVars, frameVars, animationRef, refVars, nRuns, pc,
                   audio, ctx, closeCalls, tracks, rec, tv, ct, published, histVars,
                   waitVars, startupLog, chunkVars, configVars,
                   overlayProgress, fnVars, sourceSize, paintVars>>

\* togglePlay (the button is disabled while processing.isProcessing), with the
\* video's play event running handlePlay of the preview effect.
togglePlay ==
    /\ BetweenFrames
    /\ videoUrl
    /\ ~processing.isProcessing
    /\ IF isPlaying
         THEN /\ pv' = IF pv = "playing" THEN "paused" ELSE pv
              /\ UNCHANGED <<animationRef, rafQueue>>
         ELSE /\ pv' = "playing"
              /\ animationRef' = Preview
              /\ rafQueue' = RequestFrame(rafQueue, Preview)
    /\ isPlaying' = ~isPlaying
    /\ UNCHANGED <<videoUrl, duration, processedVideoUrl, processing, frameBatch,
                   refVars, nRuns, pc, audio, ctx, closeCalls, tracks, rec, tv, ct,
                   published, histVars, waitVars, startupLog, chunkVars,
                   configVars, overlayProgress, fnVars, sourceSize, paintVars>>

\* The host begins a frame: the callbacks requested so far are the frame's.
animationFrame ==
    /\ BetweenFrames
    /\ rafQueue # <<>>
    /\ frameBatch' = rafQueue
    /\ rafQueue' = <<>>
    /\ UNCHANGED <<videoUrl, duration, processedVideoUrl, previewVars, processing,
                   animationRef, refVars, nRuns, pc, audio, ctx, closeCalls, tracks,
                   rec, tv, ct, published, histVars, waitVars, startupLog,
                   chunkVars, configVars, overlayProgress, fnVars, sourceSize, paintVars>>

\* The preview effect's renderFrame, run as the frame's next callback.
previewRenderFrame ==
    /\ frameBatch # <<>>
    /\ Head(frameBatch) = Preview
    /\ frameBatch' = Tail(frameBatch)
    /\ IF DimensionsKnown(sourceSize)
         THEN /\ canvasSize' = sourceSize
              /\ painted' = [painted EXCEPT ![Preview] = Paints(sourceSize, sourceSize, config)]
         ELSE /\ canvasSize' = canvasSize
              /\ painted' = [painted EXCEPT ![Preview] = {}]
    /\ IF pv = "playing"
         THEN /\ animationRef' = Preview
              /\ rafQueue' = RequestFrame(rafQueue, Preview)
         ELSE UNCHANGED <<animationRef, rafQueue>>
    /\ UNCHANGED <<videoUrl, duration, processedVideoUrl, previewVars, processing,
                   refVars, nRuns, pc, audio, ctx, closeCalls, tracks, rec, tv, ct,
                   published, histVars, waitVars, startupLog, chunkVars,
                   configVars, overlayProgress, fnVars, sourceSize>>

\* The visible video reaches its end: onEnded.
previewEnded ==
    /\ BetweenFrames
    /\ pv = "playing"
    /\ pv' = "ended"
    /\ isPlaying' = FALSE
    /\ UNCHANGED <<videoUrl, duration, processedVideoUrl, processing, frameVars,
                   animationRef, refVars, nRuns, pc, audio, ctx, closeCalls, tracks,
                   rec, tv, ct, published, histVars, waitVars, startupLog,
                   chunkVars, configVars, overlayProgress, fnVars, sourceSize, paintVars>>

----------------------------------------------------------------------------
\* processVideo, one action per segment between suspension points.

\* Math.ceil of a duration in whole seconds.
Ceil(d) == d

\* The Process button is rendered when !isProcessing && !processedVideoUrl.
ProcessButtonRendered ==
    videoUrl /\ ~processing.isProcessing /\ processedVideoUrl = Null

\* processVideo up to the audio-readiness await (lines 157-196).
processVideoStart ==
    /\ BetweenFrames
    /\ ProcessButtonRendered
    /\ nRuns < MaxRuns
    /\ LET r == nRuns + 1 IN
        /\ nRuns' = r
        /\ processing' = [isProcessing |-> TRUE, progress |-> 0, processedFrames |-> 0,
                          totalFrames |-> Ceil(duration),
                          estimatedTimeRemaining |-> Ceil(duration)]
        /\ tracks' = [tracks EXCEPT ![r] = "canvas"]
        /\ audio' = [audio EXCEPT ![r] = "paused"]
        /\ audioElementRef' = r
        /\ pc' = [pc EXCEPT ![r] = "awaitAudio"]
        /\ startupLog' = [startupLog EXCEPT ![r] = <<"sized">>]
        /\ capturedConfig' = [capturedConfig EXCEPT ![r] = config]
    /\ canvasSize' = SizeCanvas(sourceSize)
    /\ cancelled' = FALSE
    /\ UNCHANGED <<config, nChanges, drawnWith>>
    /\ UNCHANGED <<videoUrl, duration, processedVideoUrl, previewVars, frameVars,
                   animationRef, mediaRecorderRef, streamRef, audioContextRef, ctx,
                   closeCalls, rec, tv, ct, published, waitVars, outcome,
                   chunkVars, overlayProgress, fnVars, sourceSize, painted>>

\* Playback begun before the encoder is started.
PlayThenStart(lg) == lg \o <<"videoPlay", "audioPlay", "encoderStart">>

\* The first terminal state a run reaches is its outcome.
Settle(r, what) == [outcome EXCEPT ![r] = IF @ = "none" THEN what ELSE @]

\* Lines 198-253, run when the audio-readiness promise resolves.  failAt names
\* the constructor that throws, if any: "audioContext" (nothing acquired yet),
\* "recorder" (audio graph and combined stream exist), or "none".
AfterAudioWait(r, failAt) ==
    /\ BetweenFrames
    /\ pc[r] = "awaitAudio"
    /\ startupLog' = [startupLog EXCEPT ![r] =
            IF failAt = "audioContext" THEN Append(@, "waitSettled")
                                       ELSE @ \o <<"waitSettled", "stream">>]
    /\ IF failAt = "audioContext"
         THEN /\ pc' = [pc EXCEPT ![r] = "rejected"]
              /\ UNCHANGED <<ctx, tracks, rec, tv, audioContextRef, streamRef,
                             mediaRecorderRef>>
         ELSE /\ ctx' = [ctx EXCEPT ![r] = "running"]
              /\ audioContextRef' = r
              /\ tracks' = [tracks EXCEPT ![r] = "live"]
              /\ streamRef' = r
              /\ IF failAt = "recorder"
                   THEN /\ pc' = [pc EXCEPT ![r] = "rejected"]
                        /\ UNCHANGED <<rec, tv, mediaRecorderRef>>
                   ELSE /\ mediaRecorderRef' = r
                        /\ rec' = [rec EXCEPT ![r] = "inactive"]
                        /\ tv' = [tv EXCEPT ![r] = "loading"]
                        /\ pc' = [pc EXCEPT ![r] = "awaitMeta"]
    /\ recordedChunks' = IF failAt = "none" THEN <<>> ELSE recordedChunks
    /\ outcome' = IF failAt # "none" THEN Settle(r, "Failed") ELSE outcome
    /\ failedAt' = IF failAt # "none" THEN [failedAt EXCEPT ![r] = failAt] ELSE failedAt
    /\ UNCHANGED <<videoUrl, duration, processedVideoUrl, previewVars, processing,
                   frameVars, animationRef, audioElementRef, nRuns, audio,
                   closeCalls, ct, published, cancelled, blob, nData, emitted,
                   configVars, overlayProgress, fnVars, sourceSize, paintVars>>

\* audioElement.oncanplaythrough resolves the wait.
audioCanPlayThrough ==
    \E r \in Runs, failAt \in {"none", "audioContext", "recorder"} :
        /\ AfterAudioWait(r, failAt)
        /\ settledBy' = [settledBy EXCEPT ![r] = "ready"]

\* A timer callback that rejected a pending wait, as onerror does.
TimeoutRejects(r) ==
    /\ BetweenFrames
    /\ pc[r] = "awaitAudio"
    /\ pc' = [pc EXCEPT ![r] = "rejected"]
    /\ settledBy' = [settledBy EXCEPT ![r] = "timeout"]
    /\ failedAt' = [failedAt EXCEPT ![r] = "audioWait"]
    /\ outcome' = Settle(r, "Failed")
    /\ UNCHANGED <<videoUrl, duration, processedVideoUrl, previewVars, processing,
                   frameVars, animationRef, refVars, nRuns, audio, ctx, closeCalls,
                   tracks, rec, tv, ct, published, cancelled, startupLog,
                   chunkVars, configVars, overlayProgress, fnVars, sourceSize, paintVars>>

\* What the timer's callback does to a wait that is still pending: resolve.
TimeoutSettles(r) ==
    \E failAt \in {"none", "audioContext", "recorder"} :
        /\ AfterAudioWait(r, failAt)
        /\ settledBy' = [settledBy EXCEPT ![r] = "timeout"]

\* setTimeout(resolve, 1000) fires while the wait is pending.  The timer is
\* set in the promise's executor (line 195) and never cleared, so it is armed
\* for as long as the wait is pending; fired on a settled promise, resolve
\* changes nothing.
audioTimeout ==
    \E r \in Runs : TimeoutSettles(r)

\* audioElement.onerror rejects the wait: processVideo's promise is rejected
\* and nothing after line 196 runs.
audioError ==
    \E r \in Runs :
        /\ BetweenFrames
        /\ pc[r] = "awaitAudio"
        /\ pc' = [pc EXCEPT ![r] = "rejected"]
        /\ settledBy' = [settledBy EXCEPT ![r] = "error"]
        /\ failedAt' = [failedAt EXCEPT ![r] = "audioWait"]
        /\ outcome' = Settle(r, "Failed")
        /\ UNCHANGED <<videoUrl, duration, processedVideoUrl, previewVars, processing,
                       frameVars, animationRef, refVars, nRuns, audio, ctx,
                       closeCalls, tracks, rec, tv, ct, published, cancelled,
                       startupLog, chunkVars, configVars, overlayProgress,
                       fnVars, sourceSize, paintVars>>

\* The calls of lines 256-262 in the order the code makes them:
\* mediaRecorder.start(100), then tempVideo.play() and audioElement.play() as
\* the arguments of one Promise.all.
StartThenPlay(lg) == lg \o <<"encoderStart", "videoPlay", "audioPlay">>

\* tempVideo.onloadedmetadata resolves the second wait; lines 255-262 run:
\* mediaRecorder.start(100) throws NotSupportedError when every track of its
\* stream has ended, otherwise recording begins and both play() calls are made.
metadataLoaded ==
    \E r \in Runs :
        /\ BetweenFrames
        /\ pc[r] = "awaitMeta"
        /\ tv' = [tv EXCEPT ![r] = "ready"]
        /\ IF tracks[r] = "live"
             THEN /\ rec' = [rec EXCEPT ![r] = "recording"]
                  /\ pc' = [pc EXCEPT ![r] = "awaitPlay"]
                  /\ startupLog' = [startupLog EXCEPT ![r] = StartThenPlay(@)]
                  /\ UNCHANGED <<outcome, failedAt>>
             ELSE /\ pc' = [pc EXCEPT ![r] = "rejected"]
                  /\ outcome' = Settle(r, "Failed")
                  /\ failedAt' = [failedAt EXCEPT ![r] = "recorderStart"]
                  /\ UNCHANGED <<rec, startupLog>>
        /\ UNCHANGED <<videoUrl, duration, processedVideoUrl, previewVars, processing,
                       frameVars, animationRef, refVars, nRuns, audio, ctx,
                       closeCalls, tracks, ct, published, cancelled, settledBy,
                       chunkVars, configVars, overlayProgress, fnVars, sourceSize, paintVars>>

\* What tempVideo.ended can read once a video of duration d plays from 0: of a
\* video of duration 0 the position is at the end at once, which the HTML
\* standard calls ended playback, while engines that also require a positive
\* duration never report it ended.
AfterPlay(d) == IF d = 0 THEN {"playing", "ended"} ELSE {"playing"}

\* Both play() promises are fulfilled; lines 264-315 run and the render loop
\* is started.
playResolved ==
    \E r \in Runs, st \in AfterPlay(duration) :
        /\ BetweenFrames
        /\ pc[r] = "awaitPlay"
        /\ tv' = [tv EXCEPT ![r] = st]
        /\ audio' = [audio EXCEPT ![r] = "playing"]
        /\ pc' = [pc EXCEPT ![r] = "loop"]
        /\ animationRef' = r
        /\ rafQueue' = RequestFrame(rafQueue, r)
        /\ UNCHANGED <<videoUrl, duration, processedVideoUrl, previewVars, processing,
                       frameBatch, refVars, nRuns, ctx, closeCalls, tracks, rec, ct,
                       published, histVars, waitVars, startupLog, chunkVars,
                       configVars, overlayProgress, fnVars, sourceSize, paintVars>>

\* One of the two play() promises is rejected: Promise.all rejects and
\* processVideo ends there; the other element plays on.
playRejected ==
    \E r \in Runs, which \in {"video", "audio"} :
        /\ BetweenFrames
        /\ pc[r] = "awaitPlay"
        /\ pc' = [pc EXCEPT ![r] = "rejected"]
        /\ IF which = "video"
             THEN /\ audio' = [audio EXCEPT ![r] = "playing"]
                  /\ UNCHANGED tv
             ELSE /\ tv' = [tv EXCEPT ![r] = "playing"]
                  /\ UNCHANGED audio
        /\ failedAt' = [failedAt EXCEPT ![r] = "play"]
        /\ outcome' = Settle(r, "Failed")
        /\ UNCHANGED <<videoUrl, duration, processedVideoUrl, previewVars, processing,
                       frameVars, animationRef, refVars, nRuns, ctx, closeCalls,
                       tracks, rec, ct, published, cancelled, settledBy,
                       startupLog, chunkVars, configVars, overlayProgress,
                       fnVars, sourceSize, paintVars>>

\* The hidden video plays on by one second; at currentTime = duration it has ended.
playbackAdvance ==
    \E r \in Runs :
        /\ BetweenFrames
        /\ tv[r] = "playing"
        /\ ct[r] < duration
        /\ ct' = [ct EXCEPT ![r] = @ + 1]
        /\ tv' = [tv EXCEPT ![r] = IF ct[r] + 1 = duration THEN "ended" ELSE @]
        /\ UNCHANGED <<videoUrl, duration, processedVideoUrl, previewVars, processing,
                       frameVars, animationRef, refVars, nRuns, pc, audio, ctx,
                       closeCalls, tracks, rec, published, histVars, waitVars,
                       startupLog, chunkVars, configVars, overlayProgress,
                       fnVars, sourceSize, paintVars>>

\* The host pauses the hidden video (a user agent may pause a playing media
\* element, for instance when the page goes to the background); the code never
\* pauses or resumes it, and renderFrame reads tempVideo.paused.
hiddenVideoPaused ==
    \E r \in Runs :
        /\ BetweenFrames
        /\ tv[r] = "playing"
        /\ tv' = [tv EXCEPT ![r] = "paused"]
        /\ UNCHANGED <<videoUrl, duration, processedVideoUrl, previewVars, processing,
                       frameVars, animationRef, refVars, nRuns, pc, audio, ctx,
                       closeCalls, tracks, rec, ct, published, histVars,
                       waitVars, startupLog, chunkVars, configVars,
                       overlayProgress, fnVars, sourceSize, paintVars>>

\* The results of a JavaScript division that are no finite number.
NaN == -1
Infinity == -2

\* (a / b) * 100 as JavaScript computes it, for a >= 0 and b >= 0: 0 / 0 is
\* NaN, a / 0 is Infinity for a > 0, and both stay so when multiplied.
Percent(a, b) ==
    IF b = 0 THEN (IF a = 0 THEN NaN ELSE Infinity) ELSE (a * 100) \div b

\* d || 1: a duration of 0 is replaced by 1.
OrOne(d) == IF d = 0 THEN 1 ELSE d

\* The ProcessingState written by a frame of run r (lines 280-287).
FrameState(r) ==
    [isProcessing |-> TRUE,
     progress |-> Percent(ct[r], duration),
     processedFrames |-> ct[r] * TargetFps,
     totalFrames |-> Ceil(duration),
     estimatedTimeRemaining |-> IF duration - ct[r] > 0 THEN duration - ct[r] ELSE 0]

\* The frame branch of renderFrame (lines 268-289).
RenderBranch(r) ==
    /\ processing' = FrameState(r)
    /\ animationRef' = r
    /\ rafQueue' = RequestFrame(rafQueue, r)
    /\ frameBatch' = Tail(frameBatch)
    /\ drawnWith' = [drawnWith EXCEPT ![r] = @ \cup {capturedConfig[r]}]
    /\ overlayProgress' = [overlayProgress EXCEPT ![r] = Percent(ct[r], OrOne(duration))]
    /\ painted' = [painted EXCEPT ![r] = Paints(sourceSize, canvasSize, capturedConfig[r])]
    /\ UNCHANGED <<refVars, audio, ctx, closeCalls, tracks, rec, outcome>>

\* The ended branch of renderFrame (lines 290-311).  The recorder and the audio
\* element are the run's own; the context, the stream and the frame handle are
\* whatever the shared refs hold.  A recorder whose tracks all end stops too.
EndedBranch(r) ==
    /\ rec' = RecorderStop(RecorderStop(rec, r), streamRef)
    /\ audio' = AudioPause(audio, r)
    /\ audioElementRef' = Null
    /\ ctx' = ContextClose(ctx, audioContextRef)
    /\ closeCalls' = CloseCount(closeCalls, audioContextRef)
    /\ audioContextRef' = Null
    /\ tracks' = TracksStop(tracks, streamRef)
    /\ rafQueue' = CancelFrame(rafQueue, animationRef)
    /\ frameBatch' = CancelFrame(Tail(frameBatch), animationRef)
    /\ outcome' = Settle(r, "Completed")
    /\ painted' = [painted EXCEPT ![r] = {}]
    /\ UNCHANGED <<processing, animationRef, mediaRecorderRef, streamRef, drawnWith,
                   overlayProgress>>

\* renderFrame of run r, run as the frame's next callback.
sessionRenderFrame ==
    \E r \in Runs :
        /\ frameBatch # <<>>
        /\ Head(frameBatch) = r
        /\ IF tv[r] = "playing"
             THEN RenderBranch(r)
             ELSE IF tv[r] = "ended"
                    THEN EndedBranch(r)
                    ELSE /\ frameBatch' = Tail(frameBatch)
                         /\ painted' = [painted EXCEPT ![r] = {}]
                         /\ UNCHANGED <<processing, animationRef, rafQueue, refVars,
                                        audio, ctx, closeCalls, tracks, rec, outcome,
                                        drawnWith, overlayProgress>>
        /\ UNCHANGED <<videoUrl, duration, processedVideoUrl, previewVars, nRuns,
                       pc, tv, ct, published, cancelled, waitVars, startupLog,
                       chunkVars, config, nChanges, capturedConfig, fnVars, sourceSize, canvasSize>>

\* The settings that differ from c in one control.
OneControlAway(c) ==
    {[c EXCEPT !.showVertical = ~@], [c EXCEPT !.showHorizontal = ~@],
     [c EXCEPT !.showRotating = ~@]}
    \cup {[c EXCEPT !.lineThickness = v] : v \in ThicknessValues \ {c.lineThickness}}
    \cup {[c EXCEPT !.lineOpacity = v] : v \in OpacityValues \ {c.lineOpacity}}

\* A Switch or Slider of the Line Controls is operated (lines 488-551; each is
\* disabled while processing.isProcessing).  The new state re-creates
\* drawLines, so the preview effect (deps [videoUrl, drawLines]) is cleaned up
\* and run again: the cleanup cancels the handle in animationRef (lines 148-153).
changeSetting ==
    /\ BetweenFrames
    /\ ~processing.isProcessing
    /\ nChanges < MaxChanges
    /\ nChanges' = nChanges + 1
    /\ config' \in OneControlAway(config)
    /\ rafQueue' = IF videoUrl THEN CancelFrame(rafQueue, animationRef) ELSE rafQueue
    /\ UNCHANGED <<videoUrl, duration, processedVideoUrl, previewVars, processing,
                   frameBatch, animationRef, refVars, nRuns, pc, audio, ctx,
                   closeCalls, tracks, rec, tv, ct, published, capturedConfig,
                   drawnWith, chunkVars, waitVars, startupLog, histVars,
                   overlayProgress, fnVars, sourceSize, paintVars>>

\* mediaRecorder.ondataavailable of run r (lines 229-233): the recorder hands
\* over a chunk every 100 ms while it records and once more when it is stopped,
\* before its stop event; an empty chunk is not pushed.
dataAvailable ==
    \E r \in Runs, size \in {0, 1} :
        /\ BetweenFrames
        /\ rec[r] \in {"recording", "stopping"}
        /\ nData[r] < MaxChunks
        /\ nData' = [nData EXCEPT ![r] = @ + 1]
        /\ IF size > 0
             THEN /\ recordedChunks' = Append(recordedChunks, <<r, nData[r] + 1>>)
                  /\ emitted' = [emitted EXCEPT ![r] = Append(@, <<r, nData[r] + 1>>)]
             ELSE UNCHANGED <<recordedChunks, emitted>>
        /\ UNCHANGED <<videoUrl, duration, processedVideoUrl, previewVars, processing,
                       frameVars, animationRef, refVars, nRuns, pc, audio, ctx,
                       closeCalls, tracks, rec, tv, ct, published, blob, histVars,
                       waitVars, startupLog, configVars, overlayProgress,
                       fnVars, sourceSize, paintVars>>

\* mediaRecorder.onstop of run r (lines 235-242).
recorderOnStop ==
    \E r \in Runs :
        /\ BetweenFrames
        /\ rec[r] = "stopping"
        /\ rec' = [rec EXCEPT ![r] = "stopped"]
        /\ processedVideoUrl' = r
        /\ published' = [published EXCEPT ![r] = @ + 1]
        /\ processing' = [processing EXCEPT !.isProcessing = FALSE, !.progress = 100]
        /\ ctx' = ContextClose(ctx, r)
        /\ closeCalls' = CloseCount(closeCalls, r)
        /\ blob' = [blob EXCEPT ![r] = recordedChunks]
        /\ UNCHANGED <<recordedChunks, nData, emitted>>
        /\ UNCHANGED <<videoUrl, duration, previewVars, frameVars, animationRef,
                       refVars, nRuns, pc, audio, tracks, tv, ct, histVars,
                       waitVars, startupLog, configVars, overlayProgress,
                       fnVars, sourceSize, paintVars>>

\* A run that has begun and has reached no terminal state.
Unfinished(r) == pc[r] # "none" /\ outcome[r] = "none"

\* cancelProcessing (lines 319-340); the Cancel button is rendered while
\* processing.isProcessing.
cancelProcessing ==
    /\ BetweenFrames
    /\ processing.isProcessing
    /\ rec' = RecorderStop(RecorderStop(rec, mediaRecorderRef), streamRef)
    /\ tracks' = TracksStop(tracks, streamRef)
    /\ audio' = AudioPause(audio, audioElementRef)
    /\ audioElementRef' = Null
    /\ ctx' = ContextClose(ctx, audioContextRef)
    /\ closeCalls' = CloseCount(closeCalls, audioContextRef)
    /\ audioContextRef' = Null
    /\ rafQueue' = CancelFrame(rafQueue, animationRef)
    /\ processing' = [processing EXCEPT !.isProcessing = FALSE]
    /\ cancelled' = TRUE
    /\ outcome' = [r \in Runs |-> IF Unfinished(r) THEN "Cancelled" ELSE outcome[r]]
    /\ UNCHANGED <<videoUrl, duration, processedVideoUrl, previewVars, frameBatch,
                   animationRef, mediaRecorderRef, streamRef, nRuns, pc, tv, ct,
                   published, waitVars, startupLog, chunkVars, configVars,
                   overlayProgress, fnVars, sourceSize, paintVars>>

----------------------------------------------------------------------------
\* Next has every action of the component.  The specifications below it take
\* the actions of one concern each (the session, the session with the preview,
\* with the data callback, with the Line Controls), so that each has a state
\* space that is explored whole; every behaviour of one of them is a
\* behaviour of Spec.
Next ==
    \/ handleFileUpload
    \/ togglePlay
    \/ animationFrame
    \/ previewRenderFrame
    \/ previewEnded
    \/ processVideoStart
    \/ audioCanPlayThrough
    \/ audioTimeout
    \/ audioError
    \/ metadataLoaded
    \/ playResolved
    \/ playRejected
    \/ playbackAdvance
    \/ hiddenVideoPaused
    \/ sessionRenderFrame
    \/ dataAvailable
    \/ changeSetting
    \/ recorderOnStop
    \/ cancelProcessing

Spec == Init /\ [][Next]_vars

\* The session alone: the visible preview is never played, so that the only
\* frame callbacks are the sessions' own.
SessionNext ==
    \/ handleFileUpload
    \/ animationFrame
    \/ processVideoStart
    \/ audioCanPlayThrough
    \/ audioTimeout
    \/ audioError
    \/ metadataLoaded
    \/ playResolved
    \/ playRejected
    \/ playbackAdvance
    \/ hiddenVideoPaused
    \/ sessionRenderFrame
    \/ recorderOnStop
    \/ cancelProcessing

SessionSpec == Init /\ [][SessionNext]_vars

\* The session with the visible preview, on the way through startup where
\* nothing fails: for the frame handle the two loops share.
PreviewNext ==
    \/ handleFileUpload
    \/ togglePlay
    \/ animationFrame
    \/ previewRenderFrame
    \/ previewEnded
    \/ processVideoStart
    \/ audioTimeout
    \/ metadataLoaded
    \/ playResolved
    \/ playbackAdvance
    \/ sessionRenderFrame
    \/ recorderOnStop
    \/ cancelProcessing

PreviewSpec == Init /\ [][PreviewNext]_vars

\* The session with its encoder's data callback, on the way through startup
\* where nothing fails: for the chunk buffer.
ChunkNext ==
    \/ handleFileUpload
    \/ animationFrame
    \/ processVideoStart
    \/ audioTimeout
    \/ metadataLoaded
    \/ playResolved
    \/ playbackAdvance
    \/ sessionRenderFrame
    \/ dataAvailable
    \/ recorderOnStop
    \/ cancelProcessing

ChunkSpec == Init /\ [][ChunkNext]_vars

\* The session with the Line Controls, on the way through startup where
\* nothing fails: for the line settings.
ConfigNext ==
    \/ handleFileUpload
    \/ animationFrame
    \/ processVideoStart
    \/ audioTimeout
    \/ metadataLoaded
    \/ playResolved
    \/ playbackAdvance
    \/ sessionRenderFrame
    \/ changeSetting
    \/ recorderOnStop
    \/ cancelProcessing

ConfigSpec == Init /\ [][ConfigNext]_vars

----------------------------------------------------------------------------
\* drawLines (lines 53-93) and the mimeType selection (lines 214-218), applied
\* to arguments drawn from bounded sets.

\* Canvas sides, and progress in quarters of the duration: at k/4 the angle
\* progress * 2 * PI is k right angles, whose sine and cosine are whole.
CanvasSides == {10, 20}
Quarters == 0..4

SinQ(k) == <<0, 1, 0, -1, 0>>[k + 1]
CosQ(k) == <<1, 0, -1, 0, 1>>[k + 1]
Abs(x) == IF x < 0 THEN -x ELSE x
Min(a, b) == IF a <= b THEN a ELSE b

AllConfigs ==
    [showVertical : BOOLEAN, showHorizontal : BOOLEAN, showRotating : BOOLEAN,
     lineThickness : ThicknessValues, lineOpacity : OpacityValues]

\* One beginPath / moveTo / lineTo / stroke, with the strokeStyle opacity (in
\* percent) and the lineWidth set at lines 57-58.
Stroke(c, kind, x1, y1, x2, y2) ==
    [kind |-> kind, from |-> <<x1, y1>>, to |-> <<x2, y2>>,
     lineWidth |-> c.lineThickness, opacity |-> c.lineOpacity]

\* A horizontal line whose height depends on the vertical toggle.
HorizontalStrokeCoupled(c, w, h, k) ==
    LET y == Abs(SinQ(k)) * h + (IF c.showVertical THEN 1 ELSE 0)
    IN  Stroke(c, "horizontal", 0, y, w, y)

\* Lines 61-67.
VerticalStroke(c, w, h, k) ==
    LET x == Abs(SinQ(k)) * w IN Stroke(c, "vertical", x, 0, x, h)

\* Lines 70-76.
HorizontalStroke(c, w, h, k) ==
    LET y == Abs(SinQ(k)) * h IN Stroke(c, "horizontal", 0, y, w, y)

\* Lines 79-92; the radius is 0.4 * min(width, height).
RotatingStroke(c, w, h, k) ==
    LET centerX == w \div 2
        centerY == h \div 2
        radius == (Min(w, h) * 4) \div 10
    IN  Stroke(c, "rotating", centerX, centerY,
               centerX + CosQ(k) * radius, centerY + SinQ(k) * radius)

\* drawLines with the settings c: the strokes it makes, in order.
drawLines(c, w, h, k) ==
    (IF c.showVertical THEN <<VerticalStroke(c, w, h, k)>> ELSE <<>>)
    \o (IF c.showHorizontal THEN <<HorizontalStroke(c, w, h, k)>> ELSE <<>>)
    \o (IF c.showRotating THEN <<RotatingStroke(c, w, h, k)>> ELSE <<>>)

\* A selection that prefers vp8 to vp9.
MimeTypePreferVp8(vp9, vp8) ==
    IF vp8 THEN "video/webm;codecs=vp8,opus"
    ELSE IF vp9 THEN "video/webm;codecs=vp9,opus"
    ELSE "video/webm"

\* Lines 214-218, with the answers of MediaRecorder.isTypeSupported for the
\* vp9,opus and the vp8,opus types.
MimeType(vp9, vp8) ==
    IF vp9 THEN "video/webm;codecs=vp9,opus"
    ELSE IF vp8 THEN "video/webm;codecs=vp8,opus"
    ELSE "video/webm"

\* The type of new Blob(parts, {type: t}) (line 236): the constructor lowercases
\* a type of printable ASCII and keeps no other; the three candidate types are
\* lowercase printable ASCII.
BlobType(t) ==
    IF t \in {"video/webm;codecs=vp9,opus", "video/webm;codecs=vp8,opus", "video/webm"}
        THEN t ELSE ""

DrawArgs ==
    [fn : {"drawLines"}, width : CanvasSides, height : CanvasSides, quarter : Quarters]
MimeArgs == [fn : {"mimeType"}, vp9 : BOOLEAN, vp8 : BOOLEAN]

FnInit ==
    /\ IdleSession
    /\ sourceSize = KnownSize
    /\ \/ fnArgs \in DrawArgs /\ config \in AllConfigs
       \/ fnArgs \in MimeArgs /\ config = InitialConfig
    /\ fnResult = NotCalled

sessionVars ==
    <<videoUrl, duration, processedVideoUrl, previewVars, processing, frameVars,
      animationRef, refVars, nRuns, pc, audio, ctx, closeCalls, tracks, rec, tv,
      ct, published, configVars, overlayProgress, chunkVars, waitVars, startupLog,
      histVars, sourceSize, paintVars>>

sessionVarsButSize ==
    <<videoUrl, duration, processedVideoUrl, previewVars, processing, frameVars,
      animationRef, refVars, nRuns, pc, audio, ctx, closeCalls, tracks, rec, tv,
      ct, published, configVars, overlayProgress, chunkVars, waitVars, startupLog,
      histVars, paintVars>>

\* drawLines is called, with the settings it closed over.
drawLinesCall ==
    /\ fnArgs.fn = "drawLines"
    /\ ~fnResult.done
    /\ fnResult' = [done |-> TRUE,
                    strokes |-> drawLines(config, fnArgs.width, fnArgs.height,
                                          fnArgs.quarter)]
    /\ UNCHANGED <<sessionVars, fnArgs>>

\* The mimeType is selected; the recorder is constructed with it (lines
\* 220-224) and the Blob of onstop is given it as its type (line 236).
mimeTypeSelection ==
    /\ fnArgs.fn = "mimeType"
    /\ ~fnResult.done
    /\ LET mimeType == MimeType(fnArgs.vp9, fnArgs.vp8) IN
        fnResult' = [done |-> TRUE, recorderType |-> mimeType,
                     blobType |-> BlobType(mimeType)]
    /\ UNCHANGED <<sessionVars, fnArgs>>

FnNext ==
    \/ drawLinesCall
    \/ mimeTypeSelection

FnSpec == FnInit /\ [][FnNext]_vars

----------------------------------------------------------------------------
TypeOK ==
    /\ fnResult.done \in BOOLEAN
    /\ nChanges \in 0..MaxChanges
    /\ config.lineThickness \in ThicknessValues
    /\ config.lineOpacity \in OpacityValues
    /\ Len(recordedChunks) <= MaxRuns * MaxChunks
    /\ videoUrl \in BOOLEAN
    /\ duration \in 0..MaxDuration
    /\ processedVideoUrl \in Refs
    /\ isPlaying \in BOOLEAN
    /\ processing.isProcessing \in BOOLEAN
    /\ processing.progress \in 0..100 \cup {NaN}
    /\ \A r \in Runs : overlayProgress[r] \in 0..100
    /\ sourceSize \in SourceSizes
    /\ canvasSize \in SourceSizes \cup {DefaultCanvas}
    /\ \A o \in Loops : painted[o] \subseteq {"video", "overlay"}
    /\ pv \in {"paused", "playing", "ended"}
    /\ Range(rafQueue) \cup Range(frameBatch) \subseteq {Preview} \cup Runs
    /\ animationRef \in Handles
    /\ mediaRecorderRef \in Refs /\ streamRef \in Refs
    /\ audioElementRef \in Refs /\ audioContextRef \in Refs
    /\ nRuns \in 0..MaxRuns
    /\ \A r \in Runs :
        /\ pc[r] \in {"none", "awaitAudio", "awaitMeta", "awaitPlay", "loop", "rejected"}
        /\ audio[r] \in {"none", "paused", "playing"}
        /\ ctx[r] \in {"none", "running", "closed"}
        /\ closeCalls[r] \in 0..3
        /\ tracks[r] \in {"none", "canvas", "live", "stopped"}
        /\ rec[r] \in {"none", "inactive", "recording", "stopping", "stopped"}
        /\ tv[r] \in {"none", "loading", "ready", "playing", "paused", "ended"}
        /\ ct[r] \in 0..MaxDuration
        /\ published[r] \in 0..1
        /\ settledBy[r] \in {"none", "ready", "timeout", "error"}
        /\ nData[r] \in 0..MaxChunks
        /\ Len(blob[r]) <= MaxRuns * MaxChunks
        /\ Len(startupLog[r]) <= 6
        /\ failedAt[r] \in {"none", "audioWait", "audioContext", "recorder",
                            "recorderStart", "play"}
        /\ outcome[r] \in {"none", "Completed", "Cancelled", "Failed"}

----------------------------------------------------------------------------
\* The session states of section 4.6, per run.

Starting(r) == outcome[r] = "none" /\ pc[r] \in {"awaitAudio", "awaitMeta", "awaitPlay"}
Running(r) == outcome[r] = "none" /\ pc[r] = "loop"
Terminal(r) == outcome[r] # "none"

\* Run r still has a pending await, a started encoder, a playing hidden video
\* or a scheduled frame callback.
Live(r) ==
    \/ pc[r] \in {"awaitAudio", "awaitMeta", "awaitPlay"}
    \/ rec[r] = "recording"
    \/ tv[r] = "playing"
    \/ FramePending(r)

\* What a session holds once it is released: nothing of run r is running.
EncoderInactive(r) == rec[r] # "recording"
TracksStopped(r) == tracks[r] \in {"none", "stopped"}
AudioPaused(r) == audio[r] # "playing"
ContextClosed(r) == ctx[r] \in {"none", "closed"}
HiddenVideoStopped(r) == tv[r] # "playing"

Released(r) ==
    /\ HiddenVideoStopped(r)
    /\ AudioPaused(r)
    /\ ContextClosed(r)
    /\ TracksStopped(r)
    /\ EncoderInactive(r)
    /\ ~FramePending(r)

----------------------------------------------------------------------------
\* C1: at most one session is live at any time: no two runs of processVideo
\* have a pending await, a started encoder, a playing hidden video or a
\* scheduled frame callback at once.
C1_SingleLiveSession ==
    Cardinality({r \in Runs : Live(r)}) <= 1

\* C2: from a handled cancel request until the next start request the
\* session is inactive: isProcessing is false.
C2_InactiveAfterCancel ==
    cancelled => ~processing.isProcessing

\* C3: an Output Artifact exists only after its session reached Completed; a
\* cancelled or failed session publishes none, and a session publishes at
\* most one.
C3_ArtifactOnlyWhenCompleted ==
    /\ processedVideoUrl # Null => outcome[processedVideoUrl] = "Completed"
    /\ \A r \in Runs :
        /\ outcome[r] \in {"Cancelled", "Failed"} => published[r] = 0
        /\ published[r] <= 1

\* C4: within one session progressPercent never decreases from one state to
\* the next, and it is 100 only when the session is Completed.
C4_ProgressMonotoneAnd100OnlyCompleted ==
    [][/\ nRuns' = nRuns => processing'.progress >= processing.progress
       /\ processing'.progress = 100 =>
            nRuns' # 0 /\ outcome'[nRuns'] = "Completed"]_vars

\* C5: when the cancel handler returns, every session that was Running has its
\* encoder inactive, its tracks stopped, its audio element paused, its audio
\* context closed and no frame callback pending.
C5_CancelReleasesRunning ==
    [][cancelProcessing =>
        \A r \in Runs :
            Running(r) =>
                /\ EncoderInactive(r)'
                /\ TracksStopped(r)'
                /\ AudioPaused(r)'
                /\ ContextClosed(r)'
                /\ ~FramePending(r)']_vars

\* C6: whenever a new start request can be accepted, every session in a
\* terminal state has released all it acquired.
C6_TerminalReleasedBeforeStart ==
    \A r \in Runs :
        ProcessButtonRendered /\ Terminal(r) => Released(r)

\* C7: a session whose Starting failed has isProcessing false with progress
\* reset, has published no artifact and has nothing left running.
C7_StartFailureReachesFailed ==
    \A r \in Runs :
        outcome[r] = "Failed" /\ r = nRuns =>
            /\ ~processing.isProcessing
            /\ processing.progress = 0
            /\ published[r] = 0
            /\ Released(r)

\* C8: isProcessing = true and a non-null Output Artifact never hold together
\* (exactly one of no session, active session, completed session with
\* artifact holds).
C8_ExactlyOneSessionCase ==
    ~(processing.isProcessing /\ processedVideoUrl # Null)

\* C9: while an Output Artifact exists (no session can start then), no frame
\* callback of the session render loop or of the preview loop is scheduled.
C9_NoLoopWhileArtifact ==
    processedVideoUrl # Null =>
        /\ ~FramePending(Preview)
        /\ \A r \in Runs : ~FramePending(r)

\* C10: after a cancel, once the controller is idle a start request is
\* accepted: the Process button is rendered.
C10_RestartableAfterCancel ==
    cancelled /\ ~processing.isProcessing => ProcessButtonRendered

\* The state a completed session ends in: inactive, progress 100, framesTotal
\* the ceiling of the duration, its one artifact published, and its encoder,
\* audio, tracks, audio context and loop all released.
EndsClean(r) ==
    /\ ~processing.isProcessing
    /\ processing.progress = 100
    /\ processing.totalFrames = Ceil(duration)
    /\ processedVideoUrl = r
    /\ published[r] = 1
    /\ EncoderInactive(r)
    /\ AudioPaused(r)
    /\ TracksStopped(r)
    /\ ContextClosed(r)
    /\ ~FramePending(r)

\* C11: a session that was not cancelled and whose playback ran to its end
\* (Idle, Starting, Running, Completed) ends, when its encoder's stop callback
\* has run, with isProcessing false, progress 100, framesTotal = ceil(duration),
\* exactly one artifact, and encoder, audio, tracks and loop released.
C11_CompletedSessionEndsClean ==
    [][\A r \in Runs :
        outcome[r] = "Completed" /\ rec[r] = "stopping" /\ rec'[r] = "stopped"
            => EndsClean(r)']_vars

\* C12: while a session is Running (not cancelled, not completed) its
\* compositor loop is scheduled: the loop stops being rescheduled only by
\* detecting the end of playback, which completes the session.
C12_RunningLoopScheduled ==
    \A r \in Runs : Running(r) => FramePending(r)

\* C13: while the audio-readiness wait is pending the timeout can complete it;
\* the timeout resolves the wait, so that the run goes on with its startup and
\* is not failed by the wait (it fails there only if a constructor of lines
\* 199-224 throws); the wait is settled once, by whichever of readiness, error
\* or timeout comes first.
C13_TimeoutResolvesWait ==
    /\ [](\A r \in Runs : pc[r] = "awaitAudio" =>
            /\ settledBy[r] = "none"
            /\ BetweenFrames => ENABLED TimeoutSettles(r))
    /\ [][\A r \in Runs :
            /\ (pc[r] = "awaitAudio" /\ settledBy'[r] = "timeout")
                 => /\ pc'[r] \in {"awaitMeta", "rejected"}
                    /\ failedAt'[r] \in {"none", "audioContext", "recorder"}
                    /\ (failedAt'[r] = "none" => pc'[r] = "awaitMeta" /\ outcome'[r] # "Failed")
            /\ (settledBy[r] # "none" => settledBy'[r] = settledBy[r])
            /\ (settledBy[r] \in {"ready", "timeout"} => failedAt'[r] # "audioWait")]_vars

\* A run whose wait the timeout settled is Running.
C13_Witness ==
    \E r \in Runs : settledBy[r] = "timeout" /\ Running(r)

\* The order of the startup steps of section 4.6.
StartupOrder ==
    <<"sized", "waitSettled", "stream", "encoderStart", "videoPlay", "audioPlay">>

IsPrefix(s, t) == Len(s) <= Len(t) /\ SubSeq(t, 1, Len(s)) = s

Begins(r, step) ==
    step \notin Range(startupLog[r]) /\ step \in Range(startupLog'[r])

\* C14: the startup steps a run has taken are always an initial part of the
\* order sized, wait settled, combined stream constructed, encoder started,
\* video playback begun, audio playback begun; a run in its render loop has
\* taken them all; and the two playbacks are begun in the same step (which is
\* the step that starts the encoder first).
C14_StartupOrder ==
    /\ [](\A r \in Runs :
            /\ IsPrefix(startupLog[r], StartupOrder)
            /\ pc[r] = "loop" => startupLog[r] = StartupOrder)
    /\ [][\A r \in Runs :
            /\ Begins(r, "videoPlay") <=> Begins(r, "audioPlay")
            /\ Begins(r, "videoPlay") => "encoderStart" \in Range(startupLog'[r])]_vars

\* A Running session has taken every startup step.
C14_Witness ==
    \E r \in Runs : Running(r) /\ Len(startupLog[r]) = Len(StartupOrder)

\* C15: the chunk buffer is empty when a session's encoder starts; while that
\* session's encoder records the buffer only grows (each step leaves it as it
\* was or appends to it); and the artifact built at the encoder's stop is, in
\* order, exactly the non-empty chunks that session's own encoder emitted.
C15_BufferIsTheSessionsOwn ==
    [][\A r \in Runs :
        /\ (rec[r] = "inactive" /\ rec'[r] = "recording") => recordedChunks' = <<>>
        /\ (rec[r] = "recording") => IsPrefix(recordedChunks, recordedChunks')
        /\ (rec[r] = "stopping" /\ rec'[r] = "stopped") => blob'[r] = emitted[r]]_vars

\* C16: while a session is active (from its start request until its terminal
\* state) no step changes the line settings, and every overlay render of a
\* session has used the settings in effect at its start request.
C16_ConfigFixedWhileActive ==
    /\ [][(\E r \in Runs : Unfinished(r)) => config' = config]_vars
    /\ [](\A r \in Runs : drawnWith[r] \subseteq {capturedConfig[r]})

\* C17: with a source of duration 0 no per-frame progress is the result of a
\* division by zero: the progress passed to the overlay renderer and the
\* progress written to the processing state are both defined numbers.
C17_ProgressDefinedAtZeroDuration ==
    duration = 0 =>
        /\ processing.progress \notin {NaN, Infinity}
        /\ \A r \in Runs : overlayProgress[r] \notin {NaN, Infinity}

\* C20: in every reachable state progressPercent lies in [0, 100] and
\* etaSeconds is at least 0, given that the playback time of every session
\* lies between 0 and the duration.
C20_ProgressAndEtaInRange ==
    (\A r \in Runs : 0 <= ct[r] /\ ct[r] <= duration)
        => /\ processing.progress \in 0..100
           /\ processing.estimatedTimeRemaining >= 0

\* The toggles that are on in the settings c, by the kind of line.
EnabledKinds(c) ==
    (IF c.showVertical THEN {"vertical"} ELSE {})
    \cup (IF c.showHorizontal THEN {"horizontal"} ELSE {})
    \cup (IF c.showRotating THEN {"rotating"} ELSE {})

\* The settings that agree with c in everything but the toggles of the lines
\* other than kind.
SameButOtherToggles(c, kind) ==
    {d \in AllConfigs :
        /\ d.lineThickness = c.lineThickness
        /\ d.lineOpacity = c.lineOpacity
        /\ kind \in EnabledKinds(d)}

\* C18: for each combination of the three toggles drawLines makes one stroke
\* for each enabled line and none for a disabled one, and the stroke of an
\* enabled line (its endpoints for the given width, height and progress) is
\* the stroke drawLines makes for that line under every other setting of the
\* other two toggles.
C18_ExactlyEnabledLinesIndependently ==
    (fnArgs.fn = "drawLines" /\ fnResult.done) =>
        LET out == fnResult.strokes IN
        /\ {out[i].kind : i \in 1..Len(out)} = EnabledKinds(config)
        /\ Len(out) = Cardinality(EnabledKinds(config))
        /\ \A i \in 1..Len(out) :
            \A d \in SameButOtherToggles(config, out[i].kind) :
                out[i] \in Range(drawLines(d, fnArgs.width, fnArgs.height,
                                           fnArgs.quarter))

\* drawLines has drawn all three lines at a quarter of the duration.
C18_Witness ==
    /\ fnArgs.fn = "drawLines" /\ fnResult.done
    /\ fnArgs.quarter = 1
    /\ Len(fnResult.strokes) = 3

\* C19: for every combination of support answers the type selected is the
\* first supported of webm with vp9+opus and webm with vp8+opus, and plain
\* webm when neither is supported; the artifact's Blob carries the same type.
C19_FirstSupportedTypeTagsArtifact ==
    (fnArgs.fn = "mimeType" /\ fnResult.done) =>
        /\ fnArgs.vp9 => fnResult.recorderType = "video/webm;codecs=vp9,opus"
        /\ (~fnArgs.vp9 /\ fnArgs.vp8) => fnResult.recorderType = "video/webm;codecs=vp8,opus"
        /\ (~fnArgs.vp9 /\ ~fnArgs.vp8) => fnResult.recorderType = "video/webm"
        /\ fnResult.blobType = fnResult.recorderType

\* The selection has fallen back to vp8 where vp9 is not supported.
C19_Witness ==
    /\ fnArgs.fn = "mimeType" /\ fnResult.done
    /\ ~fnArgs.vp9 /\ fnArgs.vp8
    /\ fnResult.blobType = "video/webm;codecs=vp8,opus"

\* The video elements come to report the source's dimensions: the resize
\* event, which the page does not handle.
videoResize ==
    /\ videoUrl
    /\ sourceSize = NoSize
    /\ sourceSize' = KnownSize
    /\ UNCHANGED <<sessionVarsButSize, fnVars>>

\* The session and the preview over a source whose dimensions may not be
\* known yet, on the way through startup where nothing fails, and with the
\* hidden video pausing: for what an iteration paints.
DimsInit ==
    /\ IdleSession
    /\ sourceSize \in SourceSizes
    /\ config = InitialConfig
    /\ fnArgs = NoCall
    /\ fnResult = NotCalled

DimsNext ==
    \/ handleFileUpload
    \/ videoResize
    \/ togglePlay
    \/ animationFrame
    \/ previewRenderFrame
    \/ previewEnded
    \/ processVideoStart
    \/ audioTimeout
    \/ metadataLoaded
    \/ playResolved
    \/ playbackAdvance
    \/ hiddenVideoPaused
    \/ sessionRenderFrame
    \/ recorderOnStop

DimsSpec == DimsInit /\ [][DimsNext]_vars

\* C24: close() is called at most once on each session's audio context, on
\* the completion path (ended branch, then onstop) as on the cancellation
\* path (cancelProcessing, then onstop).
C24_ContextClosedAtMostOnce ==
    \A r \in Runs : closeCalls[r] <= 1

\* C23: in every reachable state framesDone (processedFrames) is at most
\* framesTotal (totalFrames), for every duration and every playback time
\* between 0 and the duration.
C23_FramesDoneAtMostTotal ==
    (\A r \in Runs : 0 <= ct[r] /\ ct[r] <= duration)
        => processing.processedFrames <= processing.totalFrames

\* The owners of the frame callbacks that have yet to run.
PendingCallbacks == Range(rafQueue) \cup Range(frameBatch)

\* C22: at most one frame callback is pending at any time and the handle in
\* animationRef is that callback's, so that the preview loop and a session's
\* render loop are never scheduled together and cancelling the handle in
\* animationRef leaves no frame callback pending.
C22_OnePendingCallbackInRef ==
    /\ Cardinality(PendingCallbacks) <= 1
    /\ PendingCallbacks \subseteq {animationRef}

\* Loop o runs an iteration in this step: its callback leaves the frame.
Iterates(o) ==
    /\ frameBatch # <<>>
    /\ Head(frameBatch) = o
    /\ frameBatch' = Tail(frameBatch)

\* The video the loop of o draws from has reached its end.
SourceEnded(o) == IF o = Preview THEN pv = "ended" ELSE tv[o] = "ended"

\* The loop of o is to go on after this iteration: the preview while its
\* video plays (a play event starts it again), a run until its video ends.
LoopContinues(o) == IF o = Preview THEN pv = "playing" ELSE ~SourceEnded(o)

\* The iteration of o in this step asked for the next one.
Reschedules(o) == o \in Range(rafQueue') /\ animationRef' = o

\* C21: an iteration of the compositor loop, of the session or of the preview,
\* that finds the video's width and height unknown paints nothing and, where
\* the loop is to go on, asks for the next iteration.  (No call of an
\* iteration throws here, so every iteration is a step taken to its end.)
C21_UnknownDimensionsSkipDrawing ==
    [][\A o \in Loops :
          (Iterates(o) /\ ~DimensionsKnown(sourceSize))
              => /\ painted'[o] = {}
                 /\ LoopContinues(o) => Reschedules(o)]_vars

\* The painting part of C21 alone: such an iteration paints nothing.
UnknownDimensionsPaintNothing ==
    [][\A o \in Loops :
          (Iterates(o) /\ ~DimensionsKnown(sourceSize)) => painted'[o] = {}]_vars

\* The scheduling part of C21 for the iterations whose video is playing.
UnknownDimensionsKeepPlayingLoop ==
    [][\A o \in Loops :
          (Iterates(o) /\ ~DimensionsKnown(sourceSize)
             /\ (IF o = Preview THEN pv = "playing" ELSE tv[o] = "playing"))
              => Reschedules(o)]_vars

\* The scheduling part of C21 for the session loop alone.
UnknownDimensionsKeepSessionLoop ==
    [][\A r \in Runs :
          (Iterates(r) /\ ~DimensionsKnown(sourceSize) /\ Running(r)
             /\ ~SourceEnded(r))
              => Reschedules(r)]_vars

\* No run has drawn a frame while the dimensions were unknown and the canvas
\* had no area (violated: the case of C21 happens in the session loop).
SessionIteratedUnsized ==
    ~(\E r \in Runs : /\ ~DimensionsKnown(sourceSize)
                      /\ canvasSize = NoSize
                      /\ drawnWith[r] # {})

====
